---- MODULE Spec2Model ----
(***************************************************************************)
(* Model of the chroma pixel-buffer renderer:                              *)
(*   - ScalingMatrix::new        (src/src/renderers.rs, src/src/lib.rs)    *)
(*   - create_backing_texture    (src/src/builder.rs)                      *)
(*   - Chroma::new / resize / render / add_tile / move_tile (src/src/lib.rs)*)
(*                                                                         *)
(* f32 values are modelled as exact rationals <<n, d>> in lowest terms     *)
(* with d > 0.  Every size the model draws is far below 2^24, so the       *)
(* u32 -> f32 casts, the products, the differences, the halvings, floor,   *)
(* fract, min and the comparisons of the source are exact in f32; only the *)
(* quotients sw, sh, tx, ty are rounded by the hardware and are kept here  *)
(* as the exact quotient they round.                                       *)
(***************************************************************************)
EXTENDS Integers, Sequences, FiniteSets, TLC

VARIABLES
    texture_size,            \* argument of ScalingMatrix::new / create_backing_texture
    screen_size,             \* argument of ScalingMatrix::new / create_backing_texture
    matrix,                  \* the value ScalingMatrix::new produced (or its panic)
    backing,                 \* what create_backing_texture returned (or its panic)
    texture_format,          \* argument of create_backing_texture / texture_format_size
    format_size,             \* the value texture_format_size returned
    built,                   \* what PixelsBuilder::build returned (or its panic)
    gpu,                     \* encoder, queue and presented frames of the device
    mpc,                     \* position of the caller of the functions above
    pixel_size,              \* pixel_width, pixel_height given to Chroma::new
    chroma,                  \* the fields of the Chroma object
    surface,                 \* the wgpu surface: the size it is configured with
    cstate,                  \* "unbuilt" | "ready" | "panicked"
    last_call                \* trace of the last call made on the Chroma object

vars == <<texture_size, screen_size, matrix, backing, texture_format, format_size,
          built, gpu, mpc, pixel_size, chroma, surface, cstate, last_call>>

matrixVars == <<texture_size, screen_size, matrix, backing, texture_format,
                format_size, built, gpu, mpc>>
chromaVars == <<pixel_size, chroma, surface, cstate, last_call>>

----------------------------------------------------------------------------
(* Bounds of the model *)

MaxLogical == 4
MaxSurface == 9
MaxWindow == 2
MaxTiles == 1
MaxPasses == 2

(* Program constants *)

SCREEN_WIDTH == 128
SCREEN_HEIGHT == 112
SPRITE_COUNT == 5
INDICES_LEN == 6

----------------------------------------------------------------------------
(* Rational arithmetic standing for f32 arithmetic *)

Abs(n) == IF n < 0 THEN -n ELSE n

RECURSIVE GCD(_, _)
GCD(a, b) == IF b = 0 THEN a ELSE GCD(b, a % b)

Rat(n, d) ==
    LET g == GCD(Abs(n), Abs(d))
        s == IF d < 0 THEN -1 ELSE 1
    IN  <<(s * n) \div g, (s * d) \div g>>

FromInt(n) == <<n, 1>>

RLt(a, b) == a[1] * b[2] < b[1] * a[2]
RLe(a, b) == a[1] * b[2] <= b[1] * a[2]
RAdd(a, b) == Rat(a[1] * b[2] + b[1] * a[2], a[2] * b[2])
RSub(a, b) == Rat(a[1] * b[2] - b[1] * a[2], a[2] * b[2])
RMul(a, b) == Rat(a[1] * b[1], a[2] * b[2])
RDiv(a, b) == Rat(a[1] * b[2], a[2] * b[1])

\* f32::floor
floor(a) == FromInt(a[1] \div a[2])

\* f32::trunc, rounding toward zero
trunc(a) == IF a[1] >= 0 THEN FromInt(a[1] \div a[2])
            ELSE FromInt(-((-a[1]) \div a[2]))

\* f32::fract: self - self.trunc()
fract(a) == RSub(a, trunc(a))

\* mutant: the first operand is returned whatever the second is
min_first(a, b) == a

\* f32::min
min(a, b) == IF RLt(b, a) THEN b ELSE a

\* `x as u32`: truncates toward zero and saturates at 0 for a negative value
\* (the saturation at 2^32 - 1 lies beyond every value the model draws)
as_u32(a) ==
    LET t == trunc(a)[1]
    IN  IF t < 0 THEN 0 ELSE t

\* f32::clamp asserts min <= max before clamping
clamp_panics(lo, hi) == ~ RLe(lo, hi)

\* mutant: the upper bound of the clamp is forgotten
clamp_no_upper(self, lo, hi) ==
    IF RLt(self, lo) THEN lo ELSE self

clamp(self, lo, hi) ==
    IF RLt(self, lo) THEN lo
    ELSE IF RLt(hi, self) THEN hi
    ELSE self

----------------------------------------------------------------------------
(* ScalingMatrix::new *)

Size(w, h) == [width |-> w, height |-> h]

\* mutant: the ratio is taken the wrong way round
width_ratio_inverted(tex, scr) == RDiv(FromInt(tex.width), FromInt(scr.width))

width_ratio(tex, scr) == RDiv(FromInt(scr.width), FromInt(tex.width))
height_ratio(tex, scr) == RDiv(FromInt(scr.height), FromInt(tex.height))

scale(tex, scr) ==
    floor(clamp(width_ratio(tex, scr), FromInt(1), height_ratio(tex, scr)))

scaled_width(tex, scr) == RMul(scale(tex, scr), FromInt(tex.width))
scaled_height(tex, scr) == RMul(scale(tex, scr), FromInt(tex.height))

Zero == FromInt(0)
One == FromInt(1)

\* mutant: the translation is written into the last row of each column
\* vector (entries 4 and 8) instead of the last column vector
transform_transposed(tex, scr) ==
    LET sw == RDiv(RMul(floor(clamp(width_ratio(tex, scr), FromInt(1), height_ratio(tex, scr))),
                        FromInt(tex.width)), FromInt(scr.width))
        sh == RDiv(RMul(floor(clamp(width_ratio(tex, scr), FromInt(1), height_ratio(tex, scr))),
                        FromInt(tex.height)), FromInt(scr.height))
        tx == RDiv(fract(RDiv(FromInt(scr.width), FromInt(2))), FromInt(scr.width))
        ty == RDiv(fract(RDiv(FromInt(scr.height), FromInt(2))), FromInt(scr.height))
    IN  << sw,   Zero, Zero, tx,
           Zero, sh,   Zero, ty,
           Zero, Zero, One,  Zero,
           Zero, Zero, Zero, One >>

transform(tex, scr) ==
    LET sw == RDiv(scaled_width(tex, scr), FromInt(scr.width))
        sh == RDiv(scaled_height(tex, scr), FromInt(scr.height))
        tx == RDiv(fract(RDiv(FromInt(scr.width), FromInt(2))), FromInt(scr.width))
        ty == RDiv(fract(RDiv(FromInt(scr.height), FromInt(2))), FromInt(scr.height))
    IN  << sw,   Zero, Zero, Zero,
           Zero, sh,   Zero, Zero,
           Zero, Zero, One,  Zero,
           tx,   ty,   Zero, One >>

\* mutant: the rectangle is left at the origin instead of being centered
clip_rect_uncentered(tex, scr) ==
    <<0, 0,
      as_u32(min(RMul(floor(clamp(width_ratio(tex, scr), FromInt(1), height_ratio(tex, scr))),
                      FromInt(tex.width)), FromInt(scr.width))),
      as_u32(min(RMul(floor(clamp(width_ratio(tex, scr), FromInt(1), height_ratio(tex, scr))),
                      FromInt(tex.height)), FromInt(scr.height)))>>

clip_rect(tex, scr) ==
    LET cw == min(scaled_width(tex, scr), FromInt(scr.width))
        ch == min(scaled_height(tex, scr), FromInt(scr.height))
        x == as_u32(RDiv(RSub(FromInt(scr.width), cw), FromInt(2)))
        y == as_u32(RDiv(RSub(FromInt(scr.height), ch), FromInt(2)))
    IN  <<x, y, as_u32(cw), as_u32(ch)>>

Panicked == [status |-> "panic", scale |-> 0, transform |-> <<>>, clip_rect |-> <<>>]
NoMatrix == [status |-> "none", scale |-> 0, transform |-> <<>>, clip_rect |-> <<>>]

ScalingMatrix_new(tex, scr) ==
    IF clamp_panics(FromInt(1), height_ratio(tex, scr))
    THEN Panicked
    ELSE [status    |-> "ok",
          scale     |-> scale(tex, scr)[1],
          transform |-> transform(tex, scr),
          clip_rect |-> clip_rect(tex, scr)]

----------------------------------------------------------------------------
(* wgpu::TextureFormat: a plain variant, or Astc { block, channel } *)

Fmt(name) == [name |-> name, block |-> "", channel |-> ""]
Astc(block, channel) == [name |-> "Astc", block |-> block, channel |-> channel]

\* TextureFormat::is_srgb
is_srgb(f) ==
    \/ f.name \in {"Rgba8UnormSrgb", "Bgra8UnormSrgb", "Bc1RgbaUnormSrgb",
                   "Bc2RgbaUnormSrgb", "Bc3RgbaUnormSrgb", "Bc7RgbaUnormSrgb",
                   "Etc2Rgb8UnormSrgb", "Etc2Rgb8A1UnormSrgb", "Etc2Rgba8UnormSrgb"}
    \/ (f.name = "Astc" /\ f.channel = "UnormSrgb")

\* surface_capabilities.formats, as backends report them
SurfaceCapabilities ==
    { <<"Bgra8UnormSrgb", "Bgra8Unorm">>,
      <<"Bgra8Unorm", "Rgba8UnormSrgb">>,
      <<"Rgba8UnormSrgb", "Rgba8Unorm">>,
      <<"Bgra8Unorm">> }

\* the arms of texture_format_size, in the order of the match
Formats8 == {"R8Unorm", "R8Snorm", "R8Uint", "R8Sint", "Stencil8"}
Formats16 == {"R16Uint", "R16Sint", "R16Float", "R16Unorm", "R16Snorm", "Rg8Unorm",
              "Rg8Snorm", "Rg8Uint", "Rg8Sint", "Rgb9e5Ufloat", "Depth16Unorm"}
Formats32 == {"R32Uint", "R32Sint", "R32Float", "Rg16Uint", "Rg16Sint", "Rg16Float",
              "Rg16Unorm", "Rg16Snorm", "Rgba8Unorm", "Rgba8UnormSrgb", "Rgba8Snorm",
              "Rgba8Uint", "Rgba8Sint", "Bgra8Unorm", "Bgra8UnormSrgb", "Rgb10a2Unorm",
              "Rg11b10Float", "Depth32Float", "Depth24Plus", "Depth24PlusStencil8"}
Formats64 == {"Rg32Uint", "Rg32Sint", "Rg32Float", "Rgba16Uint", "Rgba16Sint",
              "Rgba16Float", "Rgba16Unorm", "Rgba16Snorm", "Depth32FloatStencil8"}
Formats128 == {"Rgba32Uint", "Rgba32Sint", "Rgba32Float"}
FormatsBlock8 == {"Bc1RgbaUnorm", "Bc1RgbaUnormSrgb", "Bc4RUnorm", "Bc4RSnorm",
                  "Etc2Rgb8Unorm", "Etc2Rgb8UnormSrgb", "Etc2Rgb8A1Unorm",
                  "Etc2Rgb8A1UnormSrgb", "EacR11Unorm", "EacR11Snorm"}
\* the variants that no arm names and the wildcard takes
FormatsOther == {"Bc2RgbaUnorm", "Bc2RgbaUnormSrgb", "Bc3RgbaUnorm", "Bc3RgbaUnormSrgb",
                 "Bc5RgUnorm", "Bc5RgSnorm", "Bc6hRgbUfloat", "Bc6hRgbSfloat",
                 "Bc7RgbaUnorm", "Bc7RgbaUnormSrgb", "Etc2Rgba8Unorm",
                 "Etc2Rgba8UnormSrgb", "EacRg11Unorm", "EacRg11Snorm"}

AstcBlocks == {"B4x4", "B5x4", "B5x5", "B6x5", "B6x6", "B8x5", "B8x6", "B8x8",
               "B10x5", "B10x6", "B10x8", "B10x10", "B12x10", "B12x12"}
AstcChannels == {"Unorm", "UnormSrgb", "Hdr"}

TextureFormats ==
    {Fmt(n) : n \in Formats8 \cup Formats16 \cup Formats32 \cup Formats64
                    \cup Formats128 \cup FormatsBlock8 \cup FormatsOther}
    \cup {Astc(b, c) : b \in AstcBlocks, c \in AstcChannels}

\* texture_format_size: the f32 the match returns for the format
texture_format_size(format) ==
    LET n == format.name
        b == format.block
    IN  CASE n \in Formats8 -> FromInt(1)
          [] n \in Formats16 -> FromInt(2)
          [] n \in Formats32 -> FromInt(4)
          [] n \in Formats64 -> FromInt(8)
          [] n \in Formats128 -> FromInt(16)
          [] n \in FormatsBlock8 -> Rat(1, 2)
          [] n = "Astc" /\ b = "B5x4" -> Rat(125, 100)
          [] n = "Astc" /\ b = "B5x5" -> Rat(15625, 10000)
          [] n = "Astc" /\ b = "B6x5" -> Rat(1875, 1000)
          [] n = "Astc" /\ b = "B6x6" -> Rat(225, 100)
          [] n = "Astc" /\ b = "B8x5" -> Rat(25, 10)
          [] n = "Astc" /\ b = "B8x6" -> FromInt(3)
          [] n = "Astc" /\ b = "B8x8" -> FromInt(4)
          [] n = "Astc" /\ b = "B10x5" -> Rat(3125, 1000)
          [] n = "Astc" /\ b = "B10x6" -> Rat(375, 100)
          [] n = "Astc" /\ b = "B10x8" -> FromInt(5)
          [] n = "Astc" /\ b = "B10x10" -> Rat(625, 100)
          [] n = "Astc" /\ b = "B12x10" -> Rat(75, 10)
          [] n = "Astc" /\ b = "B12x12" -> FromInt(9)
          [] OTHER -> FromInt(1)

----------------------------------------------------------------------------
(* ScalingRenderer: construction and render *)

\* ScalingRenderer::new as renderers.rs defines it: it takes the texture
\* size and the surface size; the target format and the blend state of the
\* pipeline are the literals of the descriptor
ScalingRenderer_new(texture_size_, surface_size) ==
    LET m == ScalingMatrix_new(texture_size_, surface_size)
    IN  IF m.status = "panic"
        THEN [status |-> "panic"]
        ELSE [status |-> "ok",
              uniform_buffer |-> m.transform,
              target_format |-> "Rgba8UnormSrgb",
              blend |-> "ALPHA_BLENDING",
              width |-> texture_size_.width,
              height |-> texture_size_.height,
              clip_rect |-> m.clip_rect]

Cmd(name, arg) == [cmd |-> name, arg |-> arg]

\* the device side a render call can reach: the commands recorded in the
\* encoder, the command buffers submitted to the queue, the frames presented,
\* and the view the caller handed to the last render
NoGpu == [encoder |-> <<>>, submitted |-> <<>>, presented |-> 0, render_target |-> ""]

\* mutant: the pass is also finished and submitted by the renderer
ScalingRenderer_render_submitting(self, g, render_target) ==
    [self |-> self,
     gpu |-> [g EXCEPT !.submitted = Append(@, g.encoder), !.encoder = <<>>]]

\* mutant: the blit is drawn as two triangles and without the scissor
ScalingRenderer_render_quad(self, g, render_target) ==
    [self |-> self,
     gpu |-> [g EXCEPT !.encoder = Append(@,
                [label |-> "scaling_renderer_render_pass",
                 view |-> render_target,
                 load |-> "Clear(WHITE)",
                 commands |-> << Cmd("set_pipeline", <<>>),
                                 Cmd("set_bind_group", <<0>>),
                                 Cmd("set_vertex_buffer", <<0>>),
                                 Cmd("draw", <<0, 6, 0, 1>>) >>])]]

\* ScalingRenderer::render(&self, encoder, render_target): the renderer as it
\* is after the call, and the device side after the call
ScalingRenderer_render(self, g, render_target) ==
    [self |-> self,
     gpu |-> [g EXCEPT !.encoder = Append(@,
                [label |-> "scaling_renderer_render_pass",
                 view |-> render_target,
                 load |-> "Clear(WHITE)",
                 commands |-> << Cmd("set_pipeline", <<>>),
                                 Cmd("set_bind_group", <<0>>),
                                 Cmd("set_vertex_buffer", <<0>>),
                                 Cmd("set_scissor_rect", self.clip_rect),
                                 Cmd("draw", <<0, 3, 0, 1>>) >>])]]

----------------------------------------------------------------------------
(* create_backing_texture: the inverse kept by the facade *)

\* Mat4::inversed on the matrix built above (diagonal scale, translation in
\* the last column vector); a zero on the diagonal has no inverse.
inversed(m) ==
    IF m[1][1] = 0 \/ m[6][1] = 0 THEN <<>>
    ELSE << RDiv(One, m[1]), Zero, Zero, Zero,
            Zero, RDiv(One, m[6]), Zero, Zero,
            Zero, Zero, One, Zero,
            RSub(Zero, RDiv(m[13], m[1])), RSub(Zero, RDiv(m[14], m[6])), Zero, One >>

NoBacking == [status |-> "none", scaling_matrix_inverse |-> <<>>,
              texture_extent |-> Size(0, 0), texture_format |-> Fmt(""),
              scaling_renderer |-> [status |-> "none"],
              pixels_buffer_size |-> 0, clip_rect |-> <<>>]

BackingPanic == [NoBacking EXCEPT !.status = "panic"]

\* the number of values of a u16
U16_RANGE == 65536

\* width * height on u16 operands: a product past u16::MAX panics where the
\* build checks overflow and wraps where it does not
u16_mul(a, b, overflow_checks) ==
    IF a * b < U16_RANGE THEN [status |-> "ok", value |-> a * b]
    ELSE IF overflow_checks THEN [status |-> "panic", value |-> 0]
    ELSE [status |-> "ok", value |-> (a * b) % U16_RANGE]

\* f32 as usize: toward zero, negative values to 0
as_usize(a) == as_u32(a)

\* ((width * height) as f32 * texture_format_size) as usize
pixels_buffer_size(product, size) == as_usize(RMul(FromInt(product), size))

\* create_backing_texture (format is backing_texture_format, render_format is
\* render_texture_format, checks tells whether the build checks overflow);
\* ScalingRenderer::new is handed render_texture_format, clear_color and
\* blend_state as well, which its definition has no parameters for
create_backing_texture(w, h, format, surface_size, render_format, clear_color, blend_state, checks) ==
    LET m == ScalingMatrix_new(Size(w, h), surface_size)
        r == ScalingRenderer_new(Size(w, h), surface_size)
        p == u16_mul(w, h, checks)
    IN  IF m.status = "panic" \/ r.status = "panic" \/ p.status = "panic"
        THEN BackingPanic
        ELSE [status |-> "ok",
              scaling_matrix_inverse |-> inversed(m.transform),
              texture_extent |-> Size(w, h),
              texture_format |-> format,
              scaling_renderer |-> r,
              pixels_buffer_size |-> pixels_buffer_size(p.value, texture_format_size(format)),
              clip_rect |-> m.clip_rect]

----------------------------------------------------------------------------
(* PixelsBuilder: new and build *)

\* mutant: a builder whose presentation mode and clear color are not the
\* stated ones
PixelsBuilder_new_immediate(width, height, surface_size) ==
    [width |-> width, height |-> height,
     present_mode |-> "Immediate",
     surface_size |-> surface_size,
     texture_format |-> Fmt("Rgba8UnormSrgb"),
     render_texture_format |-> "None",
     surface_texture_format |-> "None",
     clear_color |-> "BLACK",
     blend_state |-> "ALPHA_BLENDING"]

\* PixelsBuilder::new
PixelsBuilder_new(width, height, surface_size) ==
    [width |-> width, height |-> height,
     present_mode |-> "Fifo",
     surface_size |-> surface_size,
     texture_format |-> Fmt("Rgba8UnormSrgb"),
     render_texture_format |-> "None",
     surface_texture_format |-> "None",
     clear_color |-> "WHITE",
     blend_state |-> "ALPHA_BLENDING"]

NoPixels == [status |-> "none"]

\* Pixels::reconfigure_surface: the presentation configuration the surface
\* is given (format, dimensions, presentation mode)
reconfigure_surface(p) ==
    [format |-> p.surface_texture_format,
     width |-> p.surface_size.width,
     height |-> p.surface_size.height,
     present_mode |-> p.present_mode]

\* PixelsBuilder::build_impl; formats is surface_capabilities.formats
build_impl(self, formats, overflow_checks) ==
    LET srgb == {i \in 1..Len(formats) : is_srgb(Fmt(formats[i]))}
    IN  IF self.surface_texture_format = "None" /\ srgb = {}
        THEN [status |-> "panic"]
        ELSE
        LET surface_texture_format ==
                IF self.surface_texture_format = "None"
                THEN formats[CHOOSE i \in srgb : \A j \in srgb : i <= j]
                ELSE self.surface_texture_format
            render_texture_format ==
                IF self.render_texture_format = "None"
                THEN surface_texture_format ELSE self.render_texture_format
            b == create_backing_texture(self.width, self.height, self.texture_format,
                                        self.surface_size, render_texture_format,
                                        self.clear_color, self.blend_state,
                                        overflow_checks)
        IN  IF b.status = "panic"
            THEN [status |-> "panic"]
            ELSE LET p == [status |-> "ok",
                           context |-> [texture_extent |-> b.texture_extent,
                                        texture_format |-> self.texture_format,
                                        texture_format_size |->
                                            texture_format_size(self.texture_format),
                                        scaling_renderer |-> b.scaling_renderer],
                           texture |-> [format |-> b.texture_format],
                           surface_size |-> self.surface_size,
                           present_mode |-> self.present_mode,
                           render_texture_format |-> render_texture_format,
                           surface_texture_format |-> surface_texture_format,
                           blend_state |-> self.blend_state,
                           pixels_len |-> b.pixels_buffer_size,
                           scaling_matrix_inverse |-> b.scaling_matrix_inverse]
                 IN  [status |-> "ok", pixels |-> p,
                      surface_config |-> reconfigure_surface(p)]

----------------------------------------------------------------------------
(* The callers of the pure functions: inputs drawn from bounded sets *)

Sizes(m) == [width : 1..m, height : 1..m]

Scenarios ==
    { <<Size(20, 20), Size(80, 80)>>,
      <<Size(256, 224), Size(1024, 896)>>,
      <<Size(256, 224), Size(1024, 1000)>>,
      <<Size(20, 20), Size(50, 100)>> }

MatrixInputs == (Sizes(MaxLogical) \X Sizes(MaxSurface)) \cup Scenarios

\* logical sizes around the largest u16 product, each with a surface that
\* holds it
BuilderScenarios ==
    { <<Size(1, 1), Size(1, 1)>>,
      <<Size(3, 1), Size(7, 5)>>,
      <<Size(255, 257), Size(255, 257)>>,
      <<Size(256, 256), Size(256, 256)>>,
      <<Size(256, 256), Size(512, 512)>>,
      <<Size(300, 300), Size(300, 300)>> }

\* the arguments of the calls: the sizes, and the backing texture format,
\* which is the builder's format except where create_backing_texture and
\* texture_format_size are called with a format of their own
BuilderInputs ==
    (MatrixInputs \X {Fmt("Rgba8UnormSrgb")}) \cup (BuilderScenarios \X TextureFormats)

\* whether the build checks integer overflow (debug) or not (release)
OverflowChecks == {TRUE, FALSE}

\* the formats of the views a caller renders to
RenderTextureFormats == {"Rgba8UnormSrgb", "Bgra8UnormSrgb"}

\* the views a caller renders to
RenderTargets == {"surface_view", "offscreen_view"}

NoCall == [op |-> "none", arg |-> <<>>, log |-> <<>>, result |-> "none",
           outcomes |-> <<>>, draw_buffer |-> <<>>]
NoChroma == [window_size |-> Size(0, 0),
             config |-> [width |-> 0, height |-> 0, format |-> ""],
             upscale_target_format |-> "",
             clip_rect |-> <<>>, uniform |-> <<>>,
             instances |-> <<>>, instance_buffer |-> <<>>,
             update_instance |-> FALSE]
NoSurface == Size(0, 0)

ChromaIdle ==
    /\ pixel_size = Size(1, 1)
    /\ chroma = NoChroma
    /\ surface = NoSurface
    /\ cstate = "unbuilt"
    /\ last_call = NoCall

InitMatrix ==
    /\ \E inp \in BuilderInputs :
        /\ texture_size = inp[1][1]
        /\ screen_size = inp[1][2]
        /\ texture_format = inp[2]
    /\ matrix = NoMatrix
    /\ backing = NoBacking
    /\ format_size = <<>>
    /\ built = NoPixels
    /\ gpu = NoGpu
    /\ mpc = "start"
    /\ ChromaIdle

inputVars == <<texture_size, screen_size, texture_format>>

CallScalingMatrixNew ==
    /\ mpc = "start"
    /\ matrix' = ScalingMatrix_new(texture_size, screen_size)
    /\ mpc' = "new"
    /\ UNCHANGED <<inputVars, backing, format_size, built, gpu>>
    /\ UNCHANGED chromaVars

CallTextureFormatSize ==
    /\ mpc = "start"
    /\ format_size' = texture_format_size(texture_format)
    /\ mpc' = "sized"
    /\ UNCHANGED <<inputVars, matrix, backing, built, gpu>>
    /\ UNCHANGED chromaVars

CallCreateBackingTexture ==
    /\ mpc = "start"
    /\ \E overflow_checks \in OverflowChecks, render_texture_format \in RenderTextureFormats :
          backing' = create_backing_texture(texture_size.width, texture_size.height,
                                            texture_format, screen_size,
                                            render_texture_format, "WHITE",
                                            "ALPHA_BLENDING", overflow_checks)
    /\ mpc' = "built"
    /\ UNCHANGED <<inputVars, matrix, format_size, built, gpu>>
    /\ UNCHANGED chromaVars

\* PixelsBuilder::new(width, height, surface_texture).build()
CallBuild ==
    /\ mpc = "start"
    /\ \E overflow_checks \in OverflowChecks, formats \in SurfaceCapabilities :
          built' = build_impl(PixelsBuilder_new(texture_size.width, texture_size.height,
                                                screen_size),
                              formats, overflow_checks)
    /\ mpc' = "pixels"
    /\ UNCHANGED <<inputVars, matrix, backing, format_size, gpu>>
    /\ UNCHANGED chromaVars

\* ScalingRenderer::render on the renderer create_backing_texture returned,
\* into the encoder of the caller
CallScalingRendererRender ==
    /\ mpc \in {"built", "rendered"}
    /\ backing.status = "ok"
    /\ Len(gpu.encoder) < MaxPasses
    /\ \E render_target \in RenderTargets :
          LET r == ScalingRenderer_render(backing.scaling_renderer, gpu, render_target)
          IN  /\ backing' = [backing EXCEPT !.scaling_renderer = r.self]
              /\ gpu' = [r.gpu EXCEPT !.render_target = render_target]
    /\ mpc' = "rendered"
    /\ UNCHANGED <<inputVars, matrix, format_size, built>>
    /\ UNCHANGED chromaVars

NextMatrix ==
    \/ CallScalingMatrixNew
    \/ CallTextureFormatSize
    \/ CallCreateBackingTexture
    \/ CallBuild
    \/ CallScalingRendererRender

SpecMatrix == InitMatrix /\ [][NextMatrix]_vars

----------------------------------------------------------------------------
(* The Chroma object: construction, resize, render, add_tile, move_tile *)

Ev(name, arg) == [ev |-> name, arg |-> arg]

\* Instance::to_raw
to_raw(inst) ==
    <<inst.position[1], inst.position[2], inst.uv_offset[1], inst.uv_offset[2]>>

\* instances.iter().map(Instance::to_raw).collect()
instance_data(instances) == [i \in 1..Len(instances) |-> to_raw(instances[i])]

\* the position a tile is stored at
tile_position(position) ==
    << RDiv(RMul(FromInt(position[1]), FromInt(2)), FromInt(SCREEN_WIDTH)),
       RDiv(RMul(FromInt(position[2]), FromInt(2)), FromInt(SCREEN_HEIGHT)) >>

\* create_upscale_renderer: the first sRGB format the surface reports, or
\* else the first format
surface_format(formats) ==
    LET srgb == {i \in 1..Len(formats) : is_srgb(Fmt(formats[i]))}
    IN  IF srgb = {} THEN formats[1]
        ELSE formats[CHOOSE i \in srgb : \A j \in srgb : i <= j]

\* create_upscale_renderer: the color target format of the upscale pipeline
upscale_target_format(formats) == "Rgba8UnormSrgb"

\* Chroma::new: create_pixel_renderer, then create_upscale_renderer, which
\* calls ScalingMatrix::new and configures the surface last
Chroma_new(pixel, window_size, formats) ==
    LET m == ScalingMatrix_new(pixel, window_size)
    IN  IF m.status = "panic"
        THEN [cstate |-> "panicked", chroma |-> NoChroma, surface |-> NoSurface]
        ELSE [cstate |-> "ready",
              chroma |-> [window_size |-> window_size,
                          config |-> [width |-> window_size.width,
                                      height |-> window_size.height,
                                      format |-> surface_format(formats)],
                          upscale_target_format |-> upscale_target_format(formats),
                          clip_rect |-> m.clip_rect,
                          uniform |-> m.transform,
                          instances |-> <<>>,
                          instance_buffer |-> instance_data(<<>>),
                          update_instance |-> FALSE],
              surface |-> Size(window_size.width, window_size.height)]

\* what the surface answers to the successive get_current_texture calls of
\* one render
Outcomes == {"ok", "fail"} \X {"ok", "fail"}

PixelSizes == { Size(2, 2), Size(2, 1) }
Positions == { <<0, 0>>, <<64, 56>> }
SpriteIndices == {1}

InitChroma ==
    /\ texture_size = Size(1, 1)
    /\ screen_size = Size(1, 1)
    /\ matrix = NoMatrix
    /\ backing = NoBacking
    /\ texture_format = Fmt("")
    /\ format_size = <<>>
    /\ built = NoPixels
    /\ gpu = NoGpu
    /\ mpc = "idle"
    /\ \E pixel \in PixelSizes, window_size \in Sizes(MaxWindow),
          formats \in SurfaceCapabilities :
        LET c == Chroma_new(pixel, window_size, formats)
        IN  /\ pixel_size = pixel
            /\ chroma = c.chroma
            /\ surface = c.surface
            /\ cstate = c.cstate
            /\ last_call = [NoCall EXCEPT !.op = "new"]

\* mutant: every requested size is taken
size_accepted_always(new_size) == TRUE

\* Chroma::resize: the guard on the requested size
size_accepted(new_size) == new_size.width > 0 /\ new_size.height > 0

\* Chroma::resize
resize(new_size) ==
    /\ cstate = "ready"
    /\ IF size_accepted(new_size)
       THEN /\ chroma' = [chroma EXCEPT !.window_size = new_size]
            /\ surface' = Size(chroma.config.width, chroma.config.height)
            /\ last_call' = [NoCall EXCEPT !.op = "resize",
                                           !.arg = <<new_size.width, new_size.height>>,
                                           !.log = <<Ev("configure", <<chroma.config.width,
                                                                        chroma.config.height>>)>>]
       ELSE /\ UNCHANGED <<chroma, surface>>
            /\ last_call' = [NoCall EXCEPT !.op = "resize",
                                           !.arg = <<new_size.width, new_size.height>>]
    /\ UNCHANGED <<pixel_size, cstate>>
    /\ UNCHANGED matrixVars

\* mutant: the flag is cleared and the buffer is left as it was
configure_instances_flag_only(c) == [c EXCEPT !.update_instance = FALSE]

\* Chroma::configure_instances
configure_instances(c) ==
    [c EXCEPT !.instance_buffer = instance_data(c.instances),
              !.update_instance = FALSE]

\* mutant: the error of the acquisition is dropped and the call goes on
frame_acquired_unchecked(outcomes) == TRUE

\* Chroma::render: surface.get_current_texture()?, one attempt whose error
\* returns from render
frame_acquired(outcomes) == outcomes[1] = "ok"

\* mutant: the frame is presented before the commands are submitted
frame_commands_present_first(clip) ==
    << Ev("create_view", <<1>>),
       Ev("upscale_pass", clip),
       Ev("present", <<1>>),
       Ev("submit", <<>>) >>

\* Chroma::render after the acquisition: the view of the acquired frame
\* (frame 1 of the call), the upscale pass with its scissor rectangle, the
\* submit of the finished encoder, the present of the acquired frame
frame_commands(clip) ==
    << Ev("create_view", <<1>>),
       Ev("upscale_pass", clip),
       Ev("submit", <<>>),
       Ev("present", <<1>>) >>

\* Chroma::render; outcomes are the answers the surface gives to the
\* acquisitions of this call, in order
render(outcomes) ==
    /\ cstate = "ready"
    /\ LET c1 == IF chroma.update_instance THEN configure_instances(chroma) ELSE chroma
           pre == (IF chroma.update_instance
                   THEN <<Ev("configure_instances", <<>>)>> ELSE <<>>)
                  \o <<Ev("create_command_encoder", <<>>),
                       Ev("pixel_pass", <<INDICES_LEN, Len(c1.instances)>>),
                       Ev("get_current_texture", <<1>>)>>
       IN  /\ chroma' = c1
           /\ IF ~frame_acquired(outcomes)
              THEN last_call' = [op |-> "render", arg |-> <<>>, log |-> pre, result |-> "Err",
                                 outcomes |-> outcomes,
                                 draw_buffer |-> c1.instance_buffer]
              ELSE last_call' = [op |-> "render", arg |-> <<>>,
                                 log |-> pre \o frame_commands(c1.clip_rect),
                                 result |-> "Ok",
                                 outcomes |-> outcomes,
                                 draw_buffer |-> c1.instance_buffer]
    /\ UNCHANGED <<pixel_size, surface, cstate>>
    /\ UNCHANGED matrixVars

\* Chroma::add_tile
add_tile(position, index) ==
    /\ cstate = "ready"
    /\ Len(chroma.instances) < MaxTiles
    /\ chroma' = [chroma EXCEPT
                    !.instances = Append(@, [position |-> tile_position(position),
                                             uv_offset |-> <<Rat(index, SPRITE_COUNT), Zero>>]),
                    !.update_instance = TRUE]
    /\ last_call' = [NoCall EXCEPT !.op = "add_tile"]
    /\ UNCHANGED <<pixel_size, surface, cstate>>
    /\ UNCHANGED matrixVars

\* Chroma::move_tile; indexing past the end of the list panics
move_tile(position, index) ==
    /\ cstate = "ready"
    /\ IF index + 1 > Len(chroma.instances)
       THEN /\ cstate' = "panicked"
            /\ UNCHANGED chroma
       ELSE /\ chroma' = [chroma EXCEPT
                            !.instances[index + 1].position = tile_position(position),
                            !.update_instance = TRUE]
            /\ UNCHANGED cstate
    /\ last_call' = [NoCall EXCEPT !.op = "move_tile"]
    /\ UNCHANGED <<pixel_size, surface>>
    /\ UNCHANGED matrixVars

Resize == \E w \in 0..MaxWindow, h \in 0..MaxWindow : resize(Size(w, h))
Render == \E o \in Outcomes : render(o)
AddTile == \E p \in Positions, i \in SpriteIndices : add_tile(p, i)
MoveTile == \E p \in Positions, i \in 0..MaxTiles : move_tile(p, i)

Next == Resize \/ Render \/ AddTile \/ MoveTile

Spec == InitChroma /\ [][Next]_vars

----------------------------------------------------------------------------
(* Helpers of the properties of ScalingMatrix::new *)

\* entry (column c, row r) of a column-major 4x4 matrix
At(m, c, r) == m[4 * (c - 1) + r]

Sum4(f) == RAdd(RAdd(f[1], f[2]), RAdd(f[3], f[4]))

\* the matrix product a * b of two column-major 4x4 matrices
MatMul(a, b) ==
    [i \in 1..16 |->
        LET c == ((i - 1) \div 4) + 1
            r == ((i - 1) % 4) + 1
        IN  Sum4([k \in 1..4 |-> RMul(At(a, k, r), At(b, c, k))])]

Identity ==
    << One,  Zero, Zero, Zero,
       Zero, One,  Zero, Zero,
       Zero, Zero, One,  Zero,
       Zero, Zero, Zero, One >>

\* x and y of m * (x, y, 0, 1)
MatVecXY(m, x, y) ==
    << RAdd(RAdd(RMul(At(m, 1, 1), x), RMul(At(m, 2, 1), y)), At(m, 4, 1)),
       RAdd(RAdd(RMul(At(m, 1, 2), x), RMul(At(m, 2, 2), y)), At(m, 4, 2)) >>

\* a surface pixel position in normalized device coordinates (x right, y up)
ToNdc(px, py, scr) ==
    << RSub(RDiv(FromInt(2 * px), FromInt(scr.width)), One),
       RSub(One, RDiv(FromInt(2 * py), FromInt(scr.height))) >>

\* a point of the full-screen quad (-1,-1)..(1,1) as a position in the
\* logical buffer (0,0)..(width,height), y down
QuadToLogical(p, tex) ==
    << RMul(RDiv(RAdd(p[1], One), FromInt(2)), FromInt(tex.width)),
       RMul(RDiv(RSub(One, p[2]), FromInt(2)), FromInt(tex.height)) >>

\* the logical position the inverse transform gives a surface pixel position
InverseMaps(inv, px, py, tex, scr) ==
    LET n == ToNdc(px, py, scr)
    IN  QuadToLogical(MatVecXY(inv, n[1], n[2]), tex)

\* the four corners of the clip rectangle go to the four corners of the
\* logical buffer
RoundTrip(inv, clip, tex, scr) ==
    /\ InverseMaps(inv, clip[1], clip[2], tex, scr) = <<Zero, Zero>>
    /\ InverseMaps(inv, clip[1] + clip[3], clip[2], tex, scr) = <<FromInt(tex.width), Zero>>
    /\ InverseMaps(inv, clip[1], clip[2] + clip[4], tex, scr) = <<Zero, FromInt(tex.height)>>
    /\ InverseMaps(inv, clip[1] + clip[3], clip[2] + clip[4], tex, scr)
          = <<FromInt(tex.width), FromInt(tex.height)>>

IsMultiple(k) ==
    /\ screen_size.width = k * texture_size.width
    /\ screen_size.height = k * texture_size.height

SurfaceCovers ==
    /\ screen_size.width >= texture_size.width
    /\ screen_size.height >= texture_size.height

Returned == mpc = "new"
Built == mpc = "built"

----------------------------------------------------------------------------
(* Properties of ScalingMatrix::new, under SpecMatrix *)

\* C1: for every logical size and surface size with positive components,
\* ScalingMatrix::new returns a clip_rect whose width is at most the surface
\* width and whose height is at most the surface height.
C1_ClipWithinSurface ==
    Returned =>
        /\ matrix.status = "ok"
        /\ matrix.clip_rect[3] <= screen_size.width
        /\ matrix.clip_rect[4] <= screen_size.height

\* C2: when the surface is k times the logical size for an integer k >= 1,
\* the scale is exactly k and the clip rectangle is the whole surface; the
\* two scenarios of the specification give scale 4.
C2_ExactMultipleFills ==
    Returned =>
        /\ \A k \in 1..screen_size.width :
              IsMultiple(k) =>
                  /\ matrix.status = "ok"
                  /\ matrix.scale = k
                  /\ matrix.clip_rect = <<0, 0, screen_size.width, screen_size.height>>
        /\ (texture_size = Size(20, 20) /\ screen_size = Size(80, 80)) =>
              (matrix.scale = 4 /\ matrix.clip_rect = <<0, 0, 80, 80>>)
        /\ (texture_size = Size(256, 224) /\ screen_size = Size(1024, 896)) =>
              (matrix.scale = 4 /\ matrix.clip_rect = <<0, 0, 1024, 896>>)

C2_Witness ==
    /\ Returned
    /\ texture_size = Size(256, 224)
    /\ screen_size = Size(1024, 896)
    /\ matrix.status = "ok"
    /\ matrix.scale = 4

\* C3: when the surface is at least as large as the logical buffer on both
\* axes, the scale is the largest integer k >= 1 such that k times the
\* logical size fits the surface on both axes (k + 1 does not fit on one).
C3_LargestIntegerScale ==
    (Returned /\ SurfaceCovers) =>
        /\ matrix.status = "ok"
        /\ matrix.scale >= 1
        /\ matrix.scale * texture_size.width <= screen_size.width
        /\ matrix.scale * texture_size.height <= screen_size.height
        /\ \/ (matrix.scale + 1) * texture_size.width > screen_size.width
           \/ (matrix.scale + 1) * texture_size.height > screen_size.height
        /\ (texture_size = Size(256, 224) /\ screen_size = Size(1024, 1000)) =>
              (matrix.scale = 4 /\ matrix.clip_rect = <<0, 52, 1024, 896>>)

C3_Witness ==
    /\ Returned
    /\ texture_size = Size(256, 224)
    /\ screen_size = Size(1024, 1000)
    /\ matrix.status = "ok"
    /\ matrix.clip_rect = <<0, 52, 1024, 896>>

\* C4: for all positive sizes the scale is an integer >= 1, and on an axis
\* where the surface is smaller than the logical buffer the scale is 1 and
\* the clip rectangle starts at 0 and spans the surface extent.
C4_NeverShrunk ==
    Returned =>
        /\ matrix.status = "ok"
        /\ matrix.scale >= 1
        /\ screen_size.width < texture_size.width =>
              /\ matrix.scale = 1
              /\ matrix.clip_rect[1] = 0
              /\ matrix.clip_rect[3] = screen_size.width
        /\ screen_size.height < texture_size.height =>
              /\ matrix.scale = 1
              /\ matrix.clip_rect[2] = 0
              /\ matrix.clip_rect[4] = screen_size.height

\* C5: when the surface is shorter than the logical buffer (height_ratio
\* below 1), ScalingMatrix::new completes normally with scale 1.
C5_ShortSurfaceScaleOne ==
    (Returned /\ screen_size.height < texture_size.height) =>
        /\ matrix.status = "ok"
        /\ matrix.scale = 1

\* C6: for all positive sizes the clip rectangle is
\* (floor((S.w - w')/2), floor((S.h - h')/2), w', h') with
\* w' = min(scale * L.w, S.w) and h' = min(scale * L.h, S.h), so on each axis
\* the trailing margin exceeds the leading one by 0 or 1; logical (20,20) on
\* surface (50,100) gives scale 2 and clip rectangle (5,30,40,40).
C6_ClipCentered ==
    Returned =>
        /\ matrix.status = "ok"
        /\ LET w == IF matrix.scale * texture_size.width < screen_size.width
                    THEN matrix.scale * texture_size.width ELSE screen_size.width
               h == IF matrix.scale * texture_size.height < screen_size.height
                    THEN matrix.scale * texture_size.height ELSE screen_size.height
               c == matrix.clip_rect
           IN  /\ c = <<(screen_size.width - w) \div 2, (screen_size.height - h) \div 2, w, h>>
               /\ (screen_size.width - (c[1] + c[3])) - c[1] \in {0, 1}
               /\ (screen_size.height - (c[2] + c[4])) - c[2] \in {0, 1}
        /\ (texture_size = Size(20, 20) /\ screen_size = Size(50, 100)) =>
              (matrix.scale = 2 /\ matrix.clip_rect = <<5, 30, 40, 40>>)

\* C7: the transform that ScalingMatrix::new builds has diagonal
\* (sw, sh, 1, 1), last row (tx, ty, 0, 1) and zeros elsewhere, with
\* sw = scale * L.w / S.w, sh = scale * L.h / S.h, tx = 0 for an even surface
\* width and 1 / (2 * S.w) for an odd one, and ty likewise for the height.
C7_TransformShape ==
    (Returned /\ matrix.status = "ok") =>
        LET sw == Rat(matrix.scale * texture_size.width, screen_size.width)
            sh == Rat(matrix.scale * texture_size.height, screen_size.height)
            tx == IF screen_size.width % 2 = 0 THEN Zero
                  ELSE Rat(1, 2 * screen_size.width)
            ty == IF screen_size.height % 2 = 0 THEN Zero
                  ELSE Rat(1, 2 * screen_size.height)
        IN  matrix.transform = << sw,   Zero, Zero, Zero,
                                  Zero, sh,   Zero, Zero,
                                  Zero, Zero, One,  Zero,
                                  tx,   ty,   Zero, One >>

C7_Witness ==
    /\ Returned
    /\ matrix.status = "ok"
    /\ screen_size.width % 2 = 1
    /\ screen_size.height % 2 = 0
    /\ matrix.scale = 2
    /\ matrix.transform[13] = Rat(1, 2 * screen_size.width)
    /\ matrix.transform[14] = Zero

\* C8: for all positive sizes the transform has sw > 0 and sh > 0 and is
\* invertible, so the inverse that create_backing_texture stores for the
\* facade is well defined (its product with the transform is the identity).
C8_InverseWellDefined ==
    Built =>
        /\ backing.status = "ok"
        /\ Len(backing.scaling_matrix_inverse) = 16
        /\ RLt(Zero, transform(texture_size, screen_size)[1])
        /\ RLt(Zero, transform(texture_size, screen_size)[6])
        /\ MatMul(transform(texture_size, screen_size), backing.scaling_matrix_inverse)
              = Identity

\* C9 as stated: for all positive sizes, whenever the facade's inverse
\* exists, it takes the four corners of the clip rectangle to the corners
\* (0,0)..(L.w,L.h) of the logical buffer.
C9_RoundTripAllSizes ==
    (Built /\ backing.status = "ok") =>
        RoundTrip(backing.scaling_matrix_inverse, backing.clip_rect,
                  texture_size, screen_size)

\* the surface has even width and height, covers the logical buffer, and the
\* scaled image leaves a letterbox of whole pixels on each side
EvenLetterbox ==
    /\ SurfaceCovers
    /\ screen_size.width % 2 = 0
    /\ screen_size.height % 2 = 0
    /\ (screen_size.width - backing.clip_rect[3]) % 2 = 0
    /\ (screen_size.height - backing.clip_rect[4]) % 2 = 0

\* C9 amended: when the surface covers the logical buffer on both axes, has
\* even width and height and the letterbox is a whole number of pixels on
\* each side, the inverse takes the four corners of the clip rectangle to the
\* corners (0,0)..(L.w,L.h) of the logical buffer.
C9_RoundTripEvenLetterbox ==
    (Built /\ backing.status = "ok" /\ EvenLetterbox) =>
        RoundTrip(backing.scaling_matrix_inverse, backing.clip_rect,
                  texture_size, screen_size)

C9_Witness ==
    /\ Built
    /\ backing.status = "ok"
    /\ EvenLetterbox
    /\ backing.clip_rect[1] > 0
    /\ backing.clip_rect[2] > 0
    /\ backing.clip_rect[3] > texture_size.width
    /\ RoundTrip(backing.scaling_matrix_inverse, backing.clip_rect,
                 texture_size, screen_size)

----------------------------------------------------------------------------
(* Properties of the builder and of ScalingRenderer, under SpecMatrix *)

\* C14: for every logical width and height the builder accepts (u16, > 0)
\* and every texture format, the pixel buffer made at construction has
\* length width * height * bytes_per_texel (whole bytes), the product being
\* computed without wrap-around and without an overflow failure.
C14_BufferLengthIsProduct ==
    /\ (Built /\ SurfaceCovers) =>
          /\ backing.status = "ok"
          /\ backing.pixels_buffer_size =
                as_usize(RMul(FromInt(texture_size.width * texture_size.height),
                              texture_format_size(texture_format)))
    /\ (mpc = "pixels" /\ built.status = "ok") =>
          built.pixels.pixels_len =
              as_usize(RMul(FromInt(texture_size.width * texture_size.height),
                            texture_format_size(Fmt("Rgba8UnormSrgb"))))

\* C15: a builder made by PixelsBuilder::new and built with no option
\* changed uses backing texture format Rgba8UnormSrgb, presentation mode
\* Fifo, blend state ALPHA_BLENDING and clear color white, and these are
\* the values found in the facade and in the renderer that build returns.
C15_DefaultsReachRenderer ==
    (mpc = "pixels" /\ built.status = "ok") =>
        LET p == built.pixels
            r == p.context.scaling_renderer
            pass == ScalingRenderer_render(r, NoGpu, "surface_view").gpu.encoder[1]
        IN  /\ p.context.texture_format = Fmt("Rgba8UnormSrgb")
            /\ p.texture.format = Fmt("Rgba8UnormSrgb")
            /\ p.present_mode = "Fifo"
            /\ p.blend_state = "ALPHA_BLENDING"
            /\ r.blend = p.blend_state
            /\ pass.load = "Clear(WHITE)"

C15_Witness ==
    /\ mpc = "pixels"
    /\ built.status = "ok"
    /\ built.pixels.present_mode = "Fifo"
    /\ built.pixels.pixels_len > 0

CmdCount(commands, name) ==
    Cardinality({i \in 1..Len(commands) : commands[i].cmd = name})

\* a step that is a call of ScalingRenderer::render
RenderStep == mpc' = "rendered"

\* C16: each call of ScalingRenderer::render records exactly one render pass,
\* on the target view, that clears to white, sets the scissor rectangle to
\* the renderer's clip_rect, and issues exactly one non-indexed draw of 3
\* vertices and 1 instance.
C16_OnePassScissorOneDraw ==
    [][RenderStep =>
         LET n == Len(gpu.encoder)
             e == gpu'.encoder
             c == e[n + 1].commands
         IN  /\ Len(e) = n + 1
             /\ SubSeq(e, 1, n) = gpu.encoder
             /\ e[n + 1].view = gpu'.render_target
             /\ e[n + 1].load = "Clear(WHITE)"
             /\ CmdCount(c, "set_scissor_rect") = 1
             /\ CmdCount(c, "draw") = 1
             /\ CmdCount(c, "draw_indexed") = 0
             /\ \E i, j \in 1..Len(c) :
                   /\ i < j
                   /\ c[i] = Cmd("set_scissor_rect", backing.scaling_renderer.clip_rect)
                   /\ c[j] = Cmd("draw", <<0, 3, 0, 1>>)]_vars

C16_Witness ==
    /\ mpc = "rendered"
    /\ Len(gpu.encoder) = MaxPasses
    /\ gpu.encoder[1].view # gpu.encoder[2].view
    /\ backing.scaling_renderer.clip_rect[2] > 0
    /\ CmdCount(gpu.encoder[2].commands, "draw") = 1

\* C17: ScalingRenderer::render only records into the encoder it is given:
\* it submits nothing to the queue, presents no frame, and leaves the
\* renderer (clip_rect, buffers, bind group, pipeline) as it was.
C17_RenderOnlyRecords ==
    [][RenderStep =>
         /\ gpu'.submitted = gpu.submitted
         /\ gpu'.presented = gpu.presented
         /\ backing'.scaling_renderer = backing.scaling_renderer
         /\ Len(gpu'.encoder) > Len(gpu.encoder)]_vars

C17_Witness ==
    /\ mpc = "rendered"
    /\ Len(gpu.encoder) = 1
    /\ gpu.submitted = <<>>
    /\ gpu.presented = 0
    /\ backing.scaling_renderer.status = "ok"

\* block geometry of the block-compressed formats: BC1, BC4, ETC2 RGB8(A1)
\* and EAC R11 have 8-byte blocks, the others 16-byte blocks; all blocks are
\* 4x4 texels except those of ASTC, whose variant names the extent
IsBlockCompressed(f) == f.name \in FormatsBlock8 \cup FormatsOther \cup {"Astc"}

BlockBytes(f) == IF f.name \in FormatsBlock8 THEN 8 ELSE 16

AstcExtent(b) ==
    CASE b = "B4x4" -> <<4, 4>>   [] b = "B5x4" -> <<5, 4>>
      [] b = "B5x5" -> <<5, 5>>   [] b = "B6x5" -> <<6, 5>>
      [] b = "B6x6" -> <<6, 6>>   [] b = "B8x5" -> <<8, 5>>
      [] b = "B8x6" -> <<8, 6>>   [] b = "B8x8" -> <<8, 8>>
      [] b = "B10x5" -> <<10, 5>> [] b = "B10x6" -> <<10, 6>>
      [] b = "B10x8" -> <<10, 8>> [] b = "B10x10" -> <<10, 10>>
      [] b = "B12x10" -> <<12, 10>> [] b = "B12x12" -> <<12, 12>>

BlockTexels(f) ==
    IF f.name = "Astc" THEN AstcExtent(f.block)[1] * AstcExtent(f.block)[2] ELSE 16

\* C18: texture_format_size returns a value for every texture format, and
\* for every block-compressed format that value is
\* block_bytes / (block_width * block_height) bytes per texel.
C18_BlockBytesPerTexel ==
    mpc = "sized" =>
        /\ format_size # <<>>
        /\ IsBlockCompressed(texture_format) =>
              format_size = Rat(BlockBytes(texture_format), BlockTexels(texture_format))

----------------------------------------------------------------------------
(* Properties of Chroma::render, under Spec *)

Count(log, name) == Cardinality({i \in 1..Len(log) : log[i].ev = name})

Rendered == last_call.op = "render"

\* C10: in each render call a failed frame acquisition is retried exactly
\* once: a render whose first acquisition fails and whose second succeeds
\* completes normally (frame drawn, submitted and presented), and no render
\* makes more than two acquisition attempts.
C10_AcquireRetriedOnce ==
    Rendered =>
        /\ Count(last_call.log, "get_current_texture") <= 2
        /\ last_call.outcomes = <<"fail", "ok">> =>
              /\ last_call.result = "Ok"
              /\ Count(last_call.log, "get_current_texture") = 2
              /\ Count(last_call.log, "upscale_pass") = 1
              /\ Count(last_call.log, "submit") = 1
              /\ Count(last_call.log, "present") = 1

\* The last acquisition of the render call was answered with a failure.
AcquisitionFailed ==
    LET n == Count(last_call.log, "get_current_texture")
    IN  n >= 1 /\ last_call.outcomes[n] = "fail"

\* C11: a render whose frame acquisition ultimately fails returns an error
\* value to its caller without crashing, and that call submits no command
\* buffer to the queue and presents no frame.
C11_AcquireFailureIsError ==
    (Rendered /\ AcquisitionFailed) =>
        /\ cstate = "ready"
        /\ last_call.result = "Err"
        /\ Count(last_call.log, "submit") = 0
        /\ Count(last_call.log, "present") = 0

C11_Witness ==
    /\ Rendered /\ AcquisitionFailed
    /\ last_call.result = "Err"
    /\ Count(last_call.log, "pixel_pass") = 1

----------------------------------------------------------------------------
(* Properties of Chroma::resize and of the surface configuration, under Spec *)

\* C12: after any sequence of resize calls the scaling state render uses is
\* the one computed for the current surface size: the stored clip_rect and
\* the transform in the uniform buffer equal those of
\* ScalingMatrix::new(logical size, current window_size).
C12_ScalingFollowsWindowSize ==
    cstate = "ready" =>
        LET m == ScalingMatrix_new(pixel_size, chroma.window_size)
        IN  /\ m.status = "ok"
            /\ chroma.clip_rect = m.clip_rect
            /\ chroma.uniform = m.transform

\* C13: in every reachable state the configured surface dimensions equal the
\* recorded window_size, and a resize to a positive size reconfigures the
\* surface with a configuration of that size.
C13_SurfaceConfiguredToWindowSize ==
    cstate = "ready" =>
        /\ surface = chroma.window_size
        /\ (last_call.op = "resize" /\ last_call.arg[1] > 0 /\ last_call.arg[2] > 0) =>
              last_call.log = <<Ev("configure", last_call.arg)>>

\* C19: for every surface format the backend can report, the color target
\* format of the upscale render pipeline equals the format the surface is
\* configured with, which is the format of the view handed to the upscale pass.
C19_PipelineTargetIsSurfaceFormat ==
    cstate = "ready" => chroma.upscale_target_format = chroma.config.format

\* C20: a resize request with a zero width or height is ignored (window_size,
\* the surface configuration and the clip rectangle stay as they were and the
\* surface is not reconfigured), so window_size keeps positive components in
\* every reachable state.
C20_ZeroResizeIgnored ==
    /\ [](cstate = "ready" =>
            chroma.window_size.width > 0 /\ chroma.window_size.height > 0)
    /\ [][(last_call'.op = "resize" /\ cstate' = "ready"
            /\ (last_call'.arg[1] = 0 \/ last_call'.arg[2] = 0)) =>
              /\ chroma' = chroma
              /\ surface' = surface
              /\ Count(last_call'.log, "configure") = 0]_vars

C20_Witness ==
    /\ last_call.op = "resize"
    /\ last_call.arg[1] = 0
    /\ last_call.log = <<>>
    /\ chroma.window_size.width > 0 /\ chroma.window_size.height > 0

----------------------------------------------------------------------------
(* Properties of a whole frame, under Spec *)

\* place of the first event of that name in a log
Pos(log, name) == CHOOSE i \in 1..Len(log) : log[i].ev = name

\* C21: in every successful render the recorded commands are submitted
\* exactly once and the acquired frame is presented exactly once, the submit
\* coming after the pixel pass and the upscale pass (in that order) and
\* before the present; the frame presented is the one acquired in that call.
C21_SubmitOncePresentOnce ==
    (Rendered /\ last_call.result = "Ok") =>
        LET log == last_call.log
        IN  /\ Count(log, "pixel_pass") = 1
            /\ Count(log, "upscale_pass") = 1
            /\ Count(log, "submit") = 1
            /\ Count(log, "present") = 1
            /\ Count(log, "get_current_texture") >= 1
            /\ Pos(log, "pixel_pass") < Pos(log, "upscale_pass")
            /\ Pos(log, "upscale_pass") < Pos(log, "submit")
            /\ Pos(log, "submit") < Pos(log, "present")
            /\ \E i \in 1..Len(log) :
                  /\ log[i].ev = "get_current_texture"
                  /\ i < Pos(log, "upscale_pass")
                  /\ last_call.outcomes[log[i].arg[1]] = "ok"
                  /\ log[Pos(log, "create_view")].arg = log[i].arg
                  /\ log[Pos(log, "present")].arg = log[i].arg

C21_Witness ==
    /\ Rendered
    /\ last_call.result = "Ok"
    /\ Len(chroma.instances) > 0
    /\ last_call.log[Len(last_call.log)] = Ev("present", <<1>>)

\* C22: after construction and any sequence of resize calls the scissor
\* rectangle render sets lies inside the surface as it is configured:
\* x + width <= configured width and y + height <= configured height.
C22_ScissorInsideConfiguredSurface ==
    cstate = "ready" =>
        /\ chroma.clip_rect[1] + chroma.clip_rect[3] <= surface.width
        /\ chroma.clip_rect[2] + chroma.clip_rect[4] <= surface.height
        /\ (Rendered /\ last_call.result = "Ok") =>
              last_call.log[Pos(last_call.log, "upscale_pass")].arg = chroma.clip_rect

C22_Witness ==
    /\ Rendered
    /\ last_call.result = "Ok"
    /\ chroma.window_size # surface
    /\ chroma.clip_rect[3] = surface.width
    /\ chroma.clip_rect[4] < surface.height

\* C23: whenever update_instance is false the instance buffer holds the raw
\* form of the instances list; at the draw of every render, failed at the
\* acquisition or not, the buffer bound and the instance count drawn are
\* those of the current list, and update_instance is false on return.
C23_InstanceBufferInSync ==
    cstate = "ready" =>
        /\ ~chroma.update_instance =>
              chroma.instance_buffer = instance_data(chroma.instances)
        /\ Rendered =>
              /\ last_call.draw_buffer = instance_data(chroma.instances)
              /\ last_call.log[Pos(last_call.log, "pixel_pass")].arg
                    = <<INDICES_LEN, Len(chroma.instances)>>
              /\ ~chroma.update_instance

C23_Witness ==
    /\ Rendered
    /\ last_call.result = "Err"
    /\ Len(chroma.instances) = MaxTiles
    /\ chroma.instances[1].position # <<Zero, Zero>>
    /\ Count(last_call.log, "configure_instances") = 1
    /\ last_call.draw_buffer = instance_data(chroma.instances)

====
